---------------------------- MODULE Spec2Model ----------------------------
(***************************************************************************)
(* ollama-mesh: the peer registry (mesh/discovery.py), the interactive     *)
(* fan-out with leader synthesis (mesh/repl.py), the heartbeat scheduler   *)
(* (mesh/heartbeat.py), the RPC client (mesh/peer.py) and the run modes    *)
(* (mesh/daemon.py), as state machines over one asyncio event loop.  Every *)
(* action is one run of a coroutine between two suspension points (await), *)
(* which the loop executes atomically.                                     *)
(*                                                                         *)
(* The specifications share the variables and the registry actions:        *)
(*   Spec       the registry alone, with the full announcement contents;   *)
(*   SpecRes    the registry with the arrival order of its events;         *)
(*   SpecAgg    the registry and MeshREPL._broadcast_chat;                 *)
(*   SpecHb     the registry and HeartbeatScheduler while it runs;         *)
(*   SpecHbLive the scheduler with stop(), under fair scheduling;          *)
(*   SpecCron   one _run_loop against the clock, from the loaded schedule; *)
(*   SpecRpc    the calls of PeerClient;                                   *)
(*   SpecRepl   a session of the REPL;                                     *)
(*   SpecRun    daemon.run and daemon.run_ui from start to teardown.       *)
(***************************************************************************)
EXTENDS Integers, Sequences, FiniteSets, TLC

VARIABLES
    node_name,   \* Discovery.node_name, the effective name
    browsing,    \* Discovery._browser is set: events are delivered
    peers,       \* Discovery.peers: insertion-ordered dict, as a sequence of PeerInfo
    channel,     \* what Discovery.stop has done on the discovery channel
    resolving,   \* presence handlers suspended in info.async_request, per name
    last,        \* the last registry event handled (history)
    stale,       \* per name: suspended presence handlers older than its last withdrawal (history)
    request_ok,  \* what the last info.async_request returned (history)
    main,        \* the main coroutine, daemon.run or daemon.run_ui: mode, position, signal
    repl_pc,     \* where _broadcast_chat stands
    from_name,   \* the local from_name of _broadcast_chat
    snapshot,    \* the local list `peers` of _broadcast_chat
    asks,        \* one _ask coroutine per snapshot peer: its state
    responses,   \* the dict `responses`, as a sequence of <<name, reply>>
    leader_name, \* the local leader_name
    leader,      \* the local leader (a PeerInfo, or None)
    chat_log,    \* the PeerClient.chat calls _broadcast_chat has issued
    printed,     \* what _broadcast_chat has printed
    running,     \* HeartbeatScheduler._running
    stop_pc,     \* where HeartbeatScheduler.stop stands
    cancel_req,  \* the tasks stop() has called cancel() on, not yet resumed
    cron,        \* one _run_loop against the clock: its croniter and the time
    hb_pc,       \* where each task's _run_loop stands
    hb_reply,    \* the local reply of each _run_loop
    hb_iter,     \* the dict iterator of each task's _broadcast
    hb_sent,     \* the chat calls each task has issued in its current tick
    hb_known,    \* the registry keys when each task's current tick fired (history)
    hb_failed,   \* which chat call of each task's tick failed first, 0: none (history)
    hb_tick,     \* how each task's last tick ended (history)
    rpc,         \* the last PeerClient call: what was called, and how it ended
    stop_set,    \* MeshREPL._stop.is_set()
    eof,         \* stdin reached its end
    cli          \* MeshREPL.run and _handle_line: position, line, locals, output

discVars == <<node_name, browsing, channel, peers, resolving, last, stale, request_ok, main>>
replVars == <<repl_pc, from_name, snapshot, asks, responses, leader_name,
              leader, chat_log, printed>>
hbVars == <<running, stop_pc, cancel_req, cron, hb_pc, hb_reply, hb_iter, hb_sent, hb_known, hb_failed, hb_tick>>
cliVars == <<rpc, stop_set, eof, cli>>
vars == <<discVars, replVars, hbVars, cliVars>>

\* None where a str is expected.  An optional value of another type is a
\* sequence: <<>> for None, <<v>> for v.
None == "None"
Nothing == <<>>
Some(v) == <<v>>

-----------------------------------------------------------------------------
(* Bounds *)

\* presence handlers that may be suspended in async_request at the same time,
\* in Spec and beside a fan-out or a heartbeat
MaxInFlight == 2
MaxInFlightBusy == 1

\* calls of Discovery.stop on a started node
MaxStops == 2

-----------------------------------------------------------------------------
(* Strings.  Python compares and slices str by code point; a name is given *)
(* its code points so that sorted() and startswith() are computed.         *)

CodePoints(s) ==
    CASE s = "ALICE" -> <<65, 76, 73, 67, 69>>
      [] s = "bob" -> <<98, 111, 98>>
      [] s = "bobby" -> <<98, 111, 98, 98, 121>>
      [] s = "carol" -> <<99, 97, 114, 111, 108>>
      [] s = "node" -> <<110, 111, 100, 101>>
      [] s = "node-2" -> <<110, 111, 100, 101, 45, 50>>
      [] s = "" -> <<>>
      [] s = "bo" -> <<98, 111>>
      [] s = "zed" -> <<122, 101, 100>>

RECURSIVE SeqLess(_, _)
\* a < b for two str values, as sequences of code points
SeqLess(a, b) ==
    IF b = <<>> THEN FALSE
    ELSE IF a = <<>> THEN TRUE
    ELSE IF Head(a) # Head(b) THEN Head(a) < Head(b)
    ELSE SeqLess(Tail(a), Tail(b))

StrLess(a, b) == SeqLess(CodePoints(a), CodePoints(b))

\* b.startswith(a)
StartsWith(b, a) ==
    LET cb == CodePoints(b)
        ca == CodePoints(a)
    IN  Len(ca) <= Len(cb) /\ SubSeq(cb, 1, Len(ca)) = ca

\* str.split(","), on a string given as the sequence of its characters
RECURSIVE SplitComma(_)
SplitComma(s) ==
    IF s = <<>> THEN << <<>> >>
    ELSE IF Head(s) = "," THEN << <<>> >> \o SplitComma(Tail(s))
    ELSE LET r == SplitComma(Tail(s))
         IN  << <<Head(s)>> \o Head(r) >> \o Tail(r)

RECURSIVE LStrip(_)
LStrip(s) == IF s # <<>> /\ Head(s) = " " THEN LStrip(Tail(s)) ELSE s

RECURSIVE RStrip(_)
RStrip(s) ==
    IF s # <<>> /\ s[Len(s)] = " " THEN RStrip(SubSeq(s, 1, Len(s) - 1)) ELSE s

\* str.strip()
Strip(s) == RStrip(LStrip(s))

RECURSIVE KeepNonEmpty(_)
KeepNonEmpty(parts) ==
    IF parts = <<>> THEN <<>>
    ELSE IF Strip(Head(parts)) # <<>>
         THEN <<Strip(Head(parts))>> \o KeepNonEmpty(Tail(parts))
         ELSE KeepNonEmpty(Tail(parts))

\* [s.strip() for s in props.get("skills", "").split(",") if s.strip()]
ParseSkills(raw) == KeepNonEmpty(SplitComma(raw))

-----------------------------------------------------------------------------
(* The registry: Discovery.peers, a dict keyed by peer name.               *)

RECURSIVE Keys(_)
Keys(d) == IF d = <<>> THEN {} ELSE {Head(d).name} \cup Keys(Tail(d))

Has(d, k) == k \in Keys(d)

\* d[k]
Get(d, k) == LET i == CHOOSE j \in 1..Len(d) : d[j].name = k IN d[i]

\* a store that extends the skills of the entry it finds
PutMerging(d, k, v) ==
    IF Has(d, k)
    THEN [j \in 1..Len(d) |->
            IF d[j].name = k THEN [v EXCEPT !.skills = d[j].skills \o @] ELSE d[j]]
    ELSE Append(d, v)

\* d[k] = v: the value is replaced where the key stands, a new key is appended
Put(d, k, v) ==
    IF Has(d, k)
    THEN [j \in 1..Len(d) |-> IF d[j].name = k THEN v ELSE d[j]]
    ELSE Append(d, v)

\* d.pop(k, None)
Pop(d, k) == SelectSeq(d, LAMBDA p : p.name # k)

\* props.get(key, ""), props the decoded info.properties (no properties: {}),
\* given as the sequence of its <<key, value>> items
PropGet(props, key) ==
    IF \E i \in 1..Len(props) : props[i][1] = key
    THEN props[CHOOSE i \in 1..Len(props) : props[i][1] = key][2]
    ELSE <<>>

\* the PeerInfo built from a resolved announcement
MakePeerInfo(short, info) ==
    [name |-> short,
     host |-> info.addresses[1],
     port |-> IF info.port = Nothing THEN 0 ELSE info.port[1],
     model |-> PropGet(info.properties, "model"),
     skills |-> ParseSkills(PropGet(info.properties, "skills"))]

\* a self-filter that compares with the configured name, not the effective one
SelfNameAsConfigured == "node"

\* the name the self-filter compares an announcement with: self.node_name
SelfName == node_name

-----------------------------------------------------------------------------
(* The names and announcements of the environment.                         *)

\* agent.name, the name Discovery is constructed with (daemon.py)
RequestedName == "node"
\* the name zeroconf registers instead when RequestedName is taken
AlternateName == "node-2"

PeerNames == {"ALICE", "bob", "bobby", "carol"}

\* what info.async_request leaves in an AsyncServiceInfo.  TXT values are
\* strings, given as the sequence of their characters.
NoAddress == [addresses |-> <<>>, port |-> Nothing, properties |-> <<>>]
AnnFull ==
    [addresses |-> <<"10.0.0.1">>, port |-> Some(7331),
     properties |-> << <<"model", <<"m", "1">> >>,
                       <<"skills", <<" ", "a", " ", ",", ",", "b">> >> >>]
AnnBare ==
    [addresses |-> <<"10.0.0.2", "10.0.0.1">>, port |-> Nothing, properties |-> <<>>]

\* Spec: the registry alone
DiscNames == {RequestedName, AlternateName, "ALICE", "bob"}
DiscAnnouncements == {NoAddress, AnnFull, AnnBare}

InFlight(names) ==
    LET RECURSIVE Sum(_)
        Sum(S) == IF S = {} THEN 0
                  ELSE LET n == CHOOSE x \in S : TRUE
                       IN  resolving[n] + Sum(S \ {n})
    IN  Sum(names)

AllNames == PeerNames \cup {RequestedName, AlternateName}

-----------------------------------------------------------------------------
(* Discovery                                                               *)

NoEvent == [op |-> "none", name |-> None, info |-> Nothing, prev |-> Nothing]

\* the browser exists and was not cancelled: it delivers events
BrowserLive == browsing /\ channel = <<>>

\* Discovery.stop: what is done on the channel, after what was done before.
\* self._browser, self._info and self._azc are set by start and never
\* cleared: a started node cancels, unregisters and closes on every call
StopChannel(started, done) ==
    IF started THEN done \o <<"cancel", "unregister", "close">> ELSE done

\* Discovery.stop
Stop ==
    /\ Len(channel) < 3 * MaxStops
    /\ channel' = StopChannel(browsing, channel)
    /\ UNCHANGED <<node_name, browsing, peers, resolving>>

\* Discovery.start: register (zeroconf may change the name), adopt the
\* registered name, then create the browser.
Start ==
    /\ ~browsing
    /\ \E registered_name \in {RequestedName, AlternateName} :
           node_name' = IF registered_name # node_name
                        THEN registered_name ELSE node_name
    /\ browsing' = TRUE
    /\ UNCHANGED <<channel, peers, resolving>>

\* _handle_state_change for Added/Updated, up to `await info.async_request`
Presence(name) ==
    /\ BrowserLive
    /\ resolving' = [resolving EXCEPT ![name] = @ + 1]
    /\ UNCHANGED <<node_name, browsing, channel, peers>>

\* _handle_state_change for Added/Updated, after async_request returned
Resolved(name, info) ==
    /\ resolving[name] > 0
    /\ resolving' = [resolving EXCEPT ![name] = @ - 1]
    /\ IF info.addresses = <<>>
       THEN peers' = peers
       ELSE IF name = SelfName
       THEN peers' = peers  \* skip self
       ELSE peers' = Put(peers, name, MakePeerInfo(name, info))
    /\ UNCHANGED <<node_name, browsing, channel>>

\* what Resolved(name, info) does, for the history
ResolvedEvent(name, info) ==
    IF info.addresses = <<>>
    THEN [op |-> "dropped", name |-> name, info |-> Nothing, prev |-> Nothing]
    ELSE IF name = SelfName
    THEN [op |-> "self", name |-> name, info |-> Nothing, prev |-> Nothing]
    ELSE [op |-> "stored", name |-> name, info |-> Some(info),
          prev |-> IF Has(peers, name) THEN Some(Get(peers, name)) ELSE Nothing]

\* del self.peers[short]: KeyError for a missing key
PopOrRaise(d, k) ==
    [dict |-> Pop(d, k), raised |-> IF Has(d, k) THEN None ELSE "KeyError"]

\* self.peers.pop(short, None): the dict afterwards, and the error raised
PopOrStay(d, k) == [dict |-> Pop(d, k), raised |-> None]

\* _handle_state_change for Removed
Removed(name) ==
    /\ BrowserLive
    /\ peers' = PopOrStay(peers, name).dict
    /\ UNCHANGED <<node_name, browsing, channel, resolving>>

\* what Removed(name) does, for the history
RemovedEvent(name) ==
    [op |-> IF PopOrStay(peers, name).raised = None THEN "removed" ELSE "raised",
     name |-> name, info |-> Nothing,
     prev |-> IF Has(peers, name) THEN Some(Get(peers, name)) ELSE Nothing]

\* MeshREPL.run waits for a line, after `line` was handled and printed `out`
AtPrompt(line, out) ==
    [pc |-> "prompt", line |-> line, op |-> None, peer |-> Nothing, out |-> out]

\* HEARTBEAT.md not parsed and no _run_loop started, at time 0
NoCron ==
    [pc |-> "unloaded", schedule |-> None, period |-> 0, now |-> 0, cur |-> 0,
     next_dt |-> 0, at |-> 0, fires |-> 0]

\* neither daemon.run nor daemon.run_ui was entered
NoMain ==
    [mode |-> "none", pc |-> "none", handlers |-> FALSE, stop_event |-> FALSE,
     signalled |-> FALSE, call |-> None, done |-> <<>>]

\* no PeerClient call was made yet
NoCall == [op |-> "none", peer |-> None, outcome |-> Nothing, result |-> Nothing]

-----------------------------------------------------------------------------
(* Initial state: every object constructed, nothing started.               *)

Init ==
    /\ node_name = RequestedName
    /\ browsing = FALSE
    /\ channel = <<>>
    /\ peers = <<>>
    /\ resolving = [n \in AllNames |-> 0]
    /\ last = NoEvent
    /\ stale = [n \in AllNames |-> 0]
    /\ request_ok = TRUE
    /\ main = NoMain
    /\ repl_pc = "idle"
    /\ from_name = None
    /\ snapshot = <<>>
    /\ asks = <<>>
    /\ responses = <<>>
    /\ leader_name = None
    /\ leader = Nothing
    /\ chat_log = <<>>
    /\ printed = <<>>
    /\ running = FALSE
    /\ stop_pc = "idle"
    /\ cancel_req = {}
    /\ cron = NoCron
    /\ hb_pc = <<>>
    /\ hb_reply = <<>>
    /\ hb_iter = <<>>
    /\ hb_sent = <<>>
    /\ hb_known = <<>>
    /\ hb_failed = <<>>
    /\ hb_tick = <<>>
    /\ rpc = NoCall
    /\ stop_set = FALSE
    /\ eof = FALSE
    /\ cli = AtPrompt(<<>>, "banner")

DiscStart == Start /\ UNCHANGED <<last, stale, request_ok, main, replVars, hbVars, cliVars>>
DiscPresence ==
    \E name \in DiscNames :
        /\ InFlight(AllNames) < MaxInFlight
        /\ Presence(name)
        /\ UNCHANGED <<last, stale, request_ok, main, replVars, hbVars, cliVars>>
DiscResolved ==
    \E name \in DiscNames, info \in DiscAnnouncements :
        /\ Resolved(name, info)
        /\ last' = ResolvedEvent(name, info)
        /\ UNCHANGED <<stale, request_ok, main, replVars, hbVars, cliVars>>
DiscRemoved ==
    \E name \in DiscNames :
        /\ Removed(name)
        /\ last' = RemovedEvent(name)
        /\ UNCHANGED <<stale, request_ok, main, replVars, hbVars, cliVars>>

DiscStop == Stop /\ UNCHANGED <<last, stale, request_ok, main, replVars, hbVars, cliVars>>

Next == DiscStart \/ DiscPresence \/ DiscResolved \/ DiscRemoved \/ DiscStop

Spec == Init /\ [][Next]_vars

-----------------------------------------------------------------------------
(* The registry with the order in which its events arrive and the result   *)
(* of each resolution.                                                     *)

\* SpecRes: the local name and two peers
ResNames == {RequestedName, "ALICE", "bob"}

\* an AsyncServiceInfo whose address and port are known and whose TXT record
\* was not received: info.properties is empty
AnnNoText == [addresses |-> <<"10.0.0.3">>, port |-> Some(7331), properties |-> <<>>]

\* `await info.async_request(zeroconf, 3000)`: the value returned (True:
\* resolved; False: not resolved within the 3000 ms) and what info then holds.
\* The handler discards the value returned and reads info.
Resolutions ==
    {[ok |-> TRUE, info |-> AnnFull],
     [ok |-> FALSE, info |-> NoAddress],
     [ok |-> FALSE, info |-> AnnNoText]}

ResStart == Start /\ UNCHANGED <<last, stale, request_ok, main, replVars, hbVars, cliVars>>

\* _on_state_change schedules a handler for Added/Updated; it runs up to the await
ResPresence ==
    \E name \in ResNames :
        /\ InFlight(AllNames) < MaxInFlight
        /\ Presence(name)
        /\ UNCHANGED <<last, stale, request_ok, main, replVars, hbVars, cliVars>>

\* a suspended handler resumes: one scheduled before the last withdrawal of
\* its name (old) or one scheduled after it
ResResolved ==
    \E name \in ResNames, r \in Resolutions, old \in BOOLEAN :
        /\ IF old THEN stale[name] > 0 ELSE resolving[name] > stale[name]
        /\ Resolved(name, r.info)
        /\ last' = ResolvedEvent(name, r.info)
        /\ stale' = [stale EXCEPT ![name] = IF old THEN @ - 1 ELSE @]
        /\ request_ok' = r.ok
        /\ UNCHANGED <<main, replVars, hbVars, cliVars>>

\* the handler for Removed runs to its end; the handlers of the name that
\* are suspended now were scheduled before it
ResRemoved ==
    \E name \in ResNames :
        /\ Removed(name)
        /\ last' = RemovedEvent(name)
        /\ stale' = [stale EXCEPT ![name] = resolving[name]]
        /\ UNCHANGED <<request_ok, main, replVars, hbVars, cliVars>>

NextRes == ResStart \/ ResPresence \/ ResResolved \/ ResRemoved

SpecRes == Init /\ [][NextRes]_vars

-----------------------------------------------------------------------------
(* MeshREPL._broadcast_chat                                                *)

\* SpecAgg: the peers of the mesh and what each announces
AggNames == {"ALICE", "bob", "bobby"}
AggAnnouncements == {AnnFull}

\* the rest of a `chat <message>` line
Question == "what is the time"
\* what a peer's /chat may answer; the empty string is a reply
ReplyTexts == {"", "noon"}
\* what the leader answers to the synthesis prompt
SynthesisText == "about noon"

NoLine == [kind |-> "none", name |-> None, text |-> None, n |-> 0]

\* sorted(...) of a sequence of tuples whose first component is a name (the
\* names are distinct, so the first component decides): insertion sort
RECURSIVE InsertSorted(_, _)
InsertSorted(x, sorted) ==
    IF sorted = <<>> THEN <<x>>
    ELSE IF StrLess(x[1], Head(sorted)[1]) THEN <<x>> \o sorted
    ELSE <<Head(sorted)>> \o InsertSorted(x, Tail(sorted))

RECURSIVE Sorted(_)
Sorted(seq) ==
    IF seq = <<>> THEN <<>> ELSE InsertSorted(Head(seq), Sorted(Tail(seq)))

\* responses.keys()
ResponseNames(resp) == [i \in 1..Len(resp) |-> resp[i][1]]

\* the first responder in dict order
FirstResponder(resp) == ResponseNames(resp)[1]

\* leader_name = sorted(responses.keys())[0]
ElectLeader(resp) ==
    Sorted([i \in 1..Len(resp) |-> <<ResponseNames(resp)[i]>>])[1][1]

\* MeshREPL._resolve_peer, against the registry as it is when called
ResolvePeer(name) ==
    IF Has(peers, name) THEN Some(Get(peers, name))
    ELSE LET matches == SelectSeq(peers, LAMBDA p : StartsWith(p.name, name))
         IN  IF Len(matches) = 1 THEN Some(matches[1]) ELSE Nothing

\* an _ask without the try: the exception leaves the coroutine
AskNoCatch(outcome) ==
    IF outcome.ok THEN [state |-> "returned", reply |-> Some(outcome.text)]
    ELSE [state |-> "raised", reply |-> Nothing]

\* _ask: (peer.name, reply), or (peer.name, None) when client.chat raised
Ask(outcome) ==
    IF outcome.ok THEN [state |-> "returned", reply |-> Some(outcome.text)]
    ELSE [state |-> "returned", reply |-> Nothing]

\* a filter on the truth of the reply: an empty reply is dropped
KeepTruthy(results) ==
    SelectSeq(results, LAMBDA r : r[2] # Nothing /\ r[2] # Some(""))

\* {name: reply for name, reply in results if reply is not None}
KeepReplies(results) == SelectSeq(results, LAMBDA r : r[2] # Nothing)

\* a branch that sends a single response to synthesis too
BranchWithoutSingle(resp) ==
    IF resp = <<>> THEN "all_failed" ELSE "synthesis"

\* the branch _broadcast_chat takes on the responses
Branch(resp) ==
    IF resp = <<>> THEN "all_failed"
    ELSE IF Len(resp) = 1 THEN "single"
    ELSE "synthesis"

\* a synthesis step without the try: the exception leaves _broadcast_chat
SynthesisUncaught(lines) == [pc |-> "raised", printed |-> lines]

\* `except Exception as e: print(f"Leader aggregation failed: {e}")` around
\* the leader's chat call, after the lines printed so far
SynthesisExcept(lines) ==
    [pc |-> "done",
     printed |-> Append(lines, [kind |-> "synthesis_failed", name |-> None,
                                text |-> None, n |-> 0])]

\* a prompt that lists the responses as the dict yields them
EntriesInDictOrder(resp) == resp

\* resp_block: one "[name]: reply" entry per item of sorted(responses.items())
SynthesisEntries(resp) == Sorted(resp)

\* the message of a chat call: the question of the fan-out, the synthesis
\* prompt (the question and the sorted responses), or a heartbeat broadcast
\* (the task's name and the backend's reply)
Message(kind, task, text, entries) ==
    [kind |-> kind, task |-> task, text |-> text, entries |-> entries]

\* PeerClient.chat(peer, message, from_name): the POST to peer.base_url/chat
ChatCall(peer, message, sender) ==
    [to |-> peer.name, url |-> <<peer.host, peer.port>>, message |-> message,
     sender |-> sender]

\* a fan-out that does not look whether the snapshot is empty
NoPeersUnchecked(ps) == FALSE

\* `if not peers:` on the snapshot list
NoPeers(ps) == ps = <<>>

ResetRepl ==
    /\ from_name' = None
    /\ snapshot' = <<>>
    /\ asks' = <<>>
    /\ responses' = <<>>
    /\ leader_name' = None
    /\ leader' = Nothing
    /\ chat_log' = <<>>

\* _broadcast_chat up to `await asyncio.gather`: snapshot, then one _ask per
\* peer, each running up to its `await self.client.chat`
Snapshot ==
    /\ browsing
    /\ repl_pc = "idle"
    /\ IF NoPeers(peers)
       THEN /\ printed' = <<[NoLine EXCEPT !.kind = "no_peers"]>>
            /\ repl_pc' = "done"
            /\ ResetRepl
       ELSE /\ snapshot' = peers
            /\ from_name' = node_name
            /\ printed' = <<[NoLine EXCEPT !.kind = "broadcasting", !.n = Len(peers)]>>
            /\ asks' = [i \in 1..Len(peers) |-> [state |-> "pending", reply |-> Nothing]]
            /\ chat_log' = [i \in 1..Len(peers) |->
                              ChatCall(peers[i], Message("question", None, Question, <<>>),
                                       node_name)]
            /\ repl_pc' = "fanout"
            /\ UNCHANGED <<responses, leader_name, leader>>

\* a `chat <message>` command starts
BroadcastChat == Snapshot /\ UNCHANGED <<discVars, hbVars, cliVars>>

\* one _ask resumes: its client.chat returned a reply, or raised (transport
\* error, timeout, non-2xx status)
AskDone(i, outcome) ==
    /\ repl_pc = "fanout"
    /\ i \in 1..Len(asks)
    /\ asks[i].state = "pending"
    /\ asks' = [asks EXCEPT ![i] = Ask(outcome)]
    /\ UNCHANGED <<repl_pc, from_name, snapshot, responses, leader_name, leader,
                   chat_log, printed>>
    /\ UNCHANGED <<discVars, hbVars, cliVars>>

\* the lines printed for the responses, in sorted order
ResponseLines(resp, lname) ==
    LET items == Sorted(resp)
    IN  [i \in 1..Len(items) |->
            [kind |-> IF items[i][1] = lname THEN "reply_leader" ELSE "reply",
             name |-> items[i][1], text |-> items[i][2][1], n |-> 0]]

\* _broadcast_chat from the return of gather to its next await or its end
Gather ==
    /\ repl_pc = "fanout"
    /\ \A i \in 1..Len(asks) : asks[i].state # "pending"
    /\ IF \E i \in 1..Len(asks) : asks[i].state = "raised"
       THEN \* gather re-raises, and nothing in _broadcast_chat catches it
            /\ repl_pc' = "raised"
            /\ UNCHANGED <<responses, leader_name, leader, chat_log, printed>>
       ELSE
       LET results == [i \in 1..Len(asks) |-> <<snapshot[i].name, asks[i].reply>>]
           resp == KeepReplies(results)
       IN  /\ responses' = resp
           /\ IF Branch(resp) = "all_failed"
              THEN /\ printed' = Append(printed, [NoLine EXCEPT !.kind = "all_failed"])
                   /\ repl_pc' = "done"
                   /\ UNCHANGED <<leader_name, leader, chat_log>>
              ELSE IF Branch(resp) = "single"
              THEN /\ printed' = Append(printed,
                          [kind |-> "reply", name |-> resp[1][1],
                           text |-> resp[1][2][1], n |-> 0])
                   /\ repl_pc' = "done"
                   /\ UNCHANGED <<leader_name, leader, chat_log>>
              ELSE LET lname == ElectLeader(resp)
                       l == ResolvePeer(lname)
                       lines == printed \o ResponseLines(resp, lname) \o
                                <<[NoLine EXCEPT !.kind = "aggregating", !.name = lname]>>
                   IN  /\ leader_name' = lname
                       /\ leader' = l
                       /\ IF l = Nothing
                          THEN \* client.chat(None, ...) raises AttributeError on
                               \* peer.base_url, inside the try
                               /\ printed' = SynthesisExcept(lines).printed
                               /\ chat_log' = chat_log
                               /\ repl_pc' = SynthesisExcept(lines).pc
                          ELSE /\ printed' = lines
                               /\ chat_log' = Append(chat_log,
                                      ChatCall(l[1],
                                          Message("synthesis", None, Question,
                                                  SynthesisEntries(resp)),
                                          from_name))
                               /\ repl_pc' = "synthesis"
    /\ UNCHANGED <<from_name, snapshot, asks>>
    /\ UNCHANGED <<discVars, hbVars, cliVars>>

\* the leader's chat returned, or raised
SynthesisDone(ok) ==
    /\ repl_pc = "synthesis"
    /\ IF ok
       THEN /\ printed' = Append(printed,
                   [NoLine EXCEPT !.kind = "final", !.text = SynthesisText])
            /\ repl_pc' = "done"
       ELSE /\ printed' = SynthesisExcept(printed).printed
            /\ repl_pc' = SynthesisExcept(printed).pc
    /\ UNCHANGED <<from_name, snapshot, asks, responses, leader_name, leader,
                   chat_log>>
    /\ UNCHANGED <<discVars, hbVars, cliVars>>

\* _broadcast_chat returns: its locals are gone
Return ==
    /\ repl_pc = "done"
    /\ repl_pc' = "idle"
    /\ printed' = <<>>
    /\ ResetRepl

\* _broadcast_chat returned to _handle_line; the next chat command starts afresh
ReturnToPrompt == Return /\ UNCHANGED <<discVars, hbVars, cliVars>>

AggStart == Start /\ UNCHANGED <<last, stale, request_ok, main, replVars, hbVars, cliVars>>
AggPresence ==
    \E name \in AggNames :
        /\ InFlight(AllNames) < MaxInFlightBusy
        /\ Presence(name)
        /\ UNCHANGED <<last, stale, request_ok, main, replVars, hbVars, cliVars>>
AggResolved ==
    \E name \in AggNames, info \in AggAnnouncements :
        Resolved(name, info) /\ UNCHANGED <<last, stale, request_ok, main, replVars, hbVars, cliVars>>
AggRemoved == \E name \in AggNames : Removed(name) /\ UNCHANGED <<last, stale, request_ok, main, replVars, hbVars, cliVars>>
AggAskDone ==
    \E i \in 1..Len(asks) :
        \/ \E text \in ReplyTexts : AskDone(i, [ok |-> TRUE, text |-> text])
        \/ AskDone(i, [ok |-> FALSE, text |-> None])
AggSynthesisDone == \E ok \in BOOLEAN : SynthesisDone(ok)

NextAgg ==
    \/ AggStart \/ AggPresence \/ AggResolved \/ AggRemoved
    \/ BroadcastChat \/ AggAskDone \/ Gather \/ AggSynthesisDone \/ ReturnToPrompt

SpecAgg == Init /\ [][NextAgg]_vars

-----------------------------------------------------------------------------
(* HeartbeatScheduler                                                      *)

\* SpecHb: the peers of the mesh and what each announces
HbNames == {"ALICE", "bob", "bobby"}
HbAnnouncements == {AnnFull}

\* the HeartbeatTask list load_config returns: schedule and prompt are set
\* (parse_heartbeat keeps no task without them)
Tasks ==
    <<[name |-> "status", broadcast |-> TRUE],
      [name |-> "digest", broadcast |-> FALSE]>>
TaskIds == 1..Len(Tasks)

\* what ollama.chat returns for a task's prompt
BackendText == "all is well"

\* self.agent.name, the sender of a heartbeat broadcast
AgentName == RequestedName

\* the "node" field of /health, the "name" of /info and the "from" of a
\* /chat or /exec reply of PeerServer
ServerNodeName == AgentName

NoIter == [used |-> 0, pos |-> 0, dirty |-> FALSE, seen |-> {}, fresh |-> {}]

\* iter(self.discovery.peers.values())
DictIter(d) == [NoIter EXCEPT !.used = Len(d)]

\* the registry changed from d to e under an iterator: a key was inserted or
\* deleted (a value replaced under its key changes nothing for the iterator)
Touch(it, d, e) ==
    IF [i \in 1..Len(d) |-> d[i].name] = [i \in 1..Len(e) |-> e[i].name] THEN it
    ELSE [it EXCEPT !.dirty = TRUE, !.fresh = @ \cup (Keys(e) \ Keys(d))]

\* next() on the iterator: what it may do.  A dict whose size differs from the
\* size at iter() raises RuntimeError.  An untouched dict yields its values in
\* insertion order, as they are now.  A dict of the same size whose keys
\* changed may raise, may stop early, or, while it has yielded fewer values
\* than the size at iter(), may yield any value not yet yielded or inserted
\* since: which of them depends on the layout of the hash table.
DictNext(it, d) ==
    IF Len(d) # it.used
    THEN {[kind |-> "error", peer |-> Nothing, it |-> it]}
    ELSE IF ~it.dirty
    THEN IF it.pos < Len(d)
         THEN {[kind |-> "yield", peer |-> Some(d[it.pos + 1]),
                it |-> [it EXCEPT !.pos = @ + 1, !.seen = @ \cup {d[it.pos + 1].name}]]}
         ELSE {[kind |-> "stop", peer |-> Nothing, it |-> it]}
    ELSE {[kind |-> "error", peer |-> Nothing, it |-> it],
          [kind |-> "stop", peer |-> Nothing, it |-> it]}
         \cup {[kind |-> "yield", peer |-> Some(d[i]),
                it |-> [it EXCEPT !.pos = @ + 1, !.seen = @ \cup {d[i].name},
                                  !.fresh = @ \ {d[i].name}]] :
               i \in {j \in 1..Len(d) :
                         /\ it.pos < it.used
                         /\ d[j].name \notin it.seen \/ d[j].name \in it.fresh}}

\* an `except` that lets the failure of ollama.chat leave _run_loop
UncaughtBackendError(t) == "dead"

\* `except Exception` in _run_loop, around the backend call and the broadcast:
\* the failure is logged and the loop goes on
CaughtBackendError(t) == "loop"

\* a bare `except:`, which catches CancelledError too
CatchesAll(exc) == TRUE

\* `except Exception`: CancelledError derives from BaseException, every
\* other error met here (httpx errors, RuntimeError) from Exception
CatchesException(exc) == exc # "CancelledError"

\* no coroutine is between two awaits: the event loop may run another one
LoopIdle == \A t \in DOMAIN hb_pc : hb_pc[t] # "loop"

\* HeartbeatScheduler.start: one asyncio task per HeartbeatTask
SchedulerStart ==
    /\ browsing
    /\ ~running
    /\ hb_pc = <<>>
    /\ running' = TRUE
    /\ hb_pc' = [t \in TaskIds |-> "created"]
    /\ hb_reply' = [t \in TaskIds |-> None]
    /\ hb_iter' = [t \in TaskIds |-> NoIter]
    /\ hb_sent' = [t \in TaskIds |-> <<>>]
    /\ hb_known' = [t \in TaskIds |-> {}]
    /\ hb_failed' = [t \in TaskIds |-> 0]
    /\ hb_tick' = [t \in TaskIds |-> "none"]
    /\ UNCHANGED <<stop_pc, cancel_req, cron, discVars, replVars, cliVars>>

\* the locals and the log of a tick are dropped
ClearTick(t) ==
    /\ hb_reply' = [hb_reply EXCEPT ![t] = None]
    /\ hb_sent' = [hb_sent EXCEPT ![t] = <<>>]
    /\ hb_known' = [hb_known EXCEPT ![t] = {}]
    /\ hb_failed' = [hb_failed EXCEPT ![t] = 0]
    /\ hb_iter' = [hb_iter EXCEPT ![t] = NoIter]

\* "Heartbeat firing": the backend call is started
Fire(t) ==
    /\ hb_pc' = [hb_pc EXCEPT ![t] = "calling"]
    /\ hb_tick' = [hb_tick EXCEPT ![t] = "firing"]
    /\ ClearTick(t)

\* _run_loop from its start to the first `await asyncio.sleep`
TaskBegin(t) ==
    /\ LoopIdle
    /\ t \notin cancel_req
    /\ hb_pc[t] = "created"
    /\ hb_pc' = [hb_pc EXCEPT ![t] = IF running THEN "sleeping" ELSE "exited"]
    /\ UNCHANGED <<running, stop_pc, cancel_req, cron, hb_reply, hb_iter, hb_sent, hb_known, hb_failed, hb_tick>>
    /\ UNCHANGED <<discVars, replVars, cliVars>>

\* the sleep ended: `if not self._running: break`, else fire
Wake(t) ==
    /\ LoopIdle
    /\ t \notin cancel_req
    /\ hb_pc[t] = "sleeping"
    /\ IF running
       THEN Fire(t)
       ELSE /\ hb_pc' = [hb_pc EXCEPT ![t] = "exited"]
            /\ UNCHANGED <<hb_reply, hb_iter, hb_sent, hb_known, hb_failed, hb_tick>>
    /\ UNCHANGED <<running, stop_pc, cancel_req, cron, discVars, replVars, cliVars>>

\* a broadcast started with create_task: _run_loop goes on beside it
DetachedBroadcast(t) == "loop"

\* `await self._broadcast(...)` and, in it, `await self.peer_client.chat(...)`:
\* _run_loop is suspended until the chat call is over
AwaitBroadcast(t) == "sending"

\* _broadcast at next() of its for loop: the next chat call, the end of the
\* loop, or the iterator's RuntimeError, which _broadcast does not catch and
\* _run_loop's `except Exception` does
BroadcastNext(t, it) ==
    \E o \in DictNext(it, peers) :
        /\ hb_iter' = [hb_iter EXCEPT ![t] = o.it]
        /\ IF o.kind = "yield"
           THEN /\ hb_sent' = [hb_sent EXCEPT ![t] =
                       Append(@, ChatCall(o.peer[1],
                                   Message("heartbeat", Tasks[t].name, hb_reply'[t], <<>>),
                                   AgentName))]
                /\ hb_pc' = [hb_pc EXCEPT ![t] = AwaitBroadcast(t)]
                /\ hb_tick' = hb_tick
           ELSE IF o.kind = "stop"
           THEN /\ hb_sent' = hb_sent
                /\ hb_pc' = [hb_pc EXCEPT ![t] = "loop"]
                /\ hb_tick' = [hb_tick EXCEPT ![t] = "ok"]
           ELSE /\ hb_sent' = hb_sent
                /\ hb_pc' = [hb_pc EXCEPT ![t] = "loop"]
                /\ hb_tick' = [hb_tick EXCEPT ![t] = "broadcast_raised"]

\* ollama.chat returned or raised: the rest of the try block up to the next
\* await, or the except clause
BackendDone(t, ok) ==
    /\ LoopIdle
    /\ t \notin cancel_req
    /\ hb_pc[t] = "calling"
    /\ IF ~ok
       THEN /\ hb_pc' = [hb_pc EXCEPT ![t] = CaughtBackendError(t)]
            /\ hb_tick' = [hb_tick EXCEPT ![t] = "backend_failed"]
            /\ UNCHANGED <<hb_reply, hb_iter, hb_sent, hb_known, hb_failed>>
       ELSE /\ hb_reply' = [hb_reply EXCEPT ![t] = BackendText]
            /\ IF Tasks[t].broadcast
               THEN /\ hb_known' = [hb_known EXCEPT ![t] = Keys(peers)]
                    /\ hb_failed' = hb_failed
                    /\ BroadcastNext(t, DictIter(peers))
               ELSE /\ hb_pc' = [hb_pc EXCEPT ![t] = "loop"]
                    /\ hb_tick' = [hb_tick EXCEPT ![t] = "ok"]
                    /\ UNCHANGED <<hb_iter, hb_sent, hb_known, hb_failed>>
    /\ UNCHANGED <<running, stop_pc, cancel_req, cron, discVars, replVars, cliVars>>

\* a _broadcast without the inner try: a failed chat call leaves the for loop
SendUncaught(t) == "propagate"

\* `except Exception: log.warning("Failed to broadcast to %s", ...)` inside
\* the for loop of _broadcast: the loop goes on
SendExcept(t) == "continue"

\* peer_client.chat of a broadcast returned or raised, and the for loop goes
\* on, unless the failure leaves it
SendDone(t, ok) ==
    /\ LoopIdle
    /\ t \notin cancel_req
    /\ hb_pc[t] = "sending"
    /\ hb_reply' = hb_reply
    /\ hb_failed' = [hb_failed EXCEPT ![t] =
                         IF ~ok /\ @ = 0 THEN Len(hb_sent[t]) ELSE @]
    /\ IF ok \/ SendExcept(t) = "continue"
       THEN BroadcastNext(t, hb_iter[t])
       ELSE /\ hb_pc' = [hb_pc EXCEPT ![t] = "loop"]
            /\ hb_tick' = [hb_tick EXCEPT ![t] = "broadcast_raised"]
            /\ UNCHANGED <<hb_iter, hb_sent>>
    /\ UNCHANGED <<running, stop_pc, cancel_req, cron, hb_known, discVars, replVars, cliVars>>

\* the end of one iteration of `while self._running`, with the tick's outcome
\* and log still in place, to the next await: the sleep, or, when the next
\* fire time has passed already (delay <= 0), the next backend call
LoopHead(t, late) ==
    /\ hb_pc[t] = "loop"
    /\ IF ~running
       THEN /\ hb_pc' = [hb_pc EXCEPT ![t] = "exited"]
            /\ hb_tick' = hb_tick
            /\ ClearTick(t)
       ELSE IF late
       THEN Fire(t)
       ELSE /\ hb_pc' = [hb_pc EXCEPT ![t] = "sleeping"]
            /\ hb_tick' = hb_tick
            /\ ClearTick(t)
    /\ UNCHANGED <<running, stop_pc, cancel_req, cron, discVars, replVars, cliVars>>

\* HeartbeatScheduler.stop up to `await asyncio.gather`: the flag is cleared
\* and cancel() is called on every task handle; a task that is not done is
\* marked, and CancelledError is thrown into it when the event loop resumes it
SchedulerStop ==
    /\ LoopIdle
    /\ running
    /\ stop_pc = "idle"
    /\ running' = FALSE
    /\ stop_pc' = "gathering"
    /\ cancel_req' = {t \in TaskIds :
                         hb_pc[t] \in {"created", "sleeping", "calling", "sending"}}
    /\ UNCHANGED <<cron, hb_pc, hb_reply, hb_iter, hb_sent, hb_known, hb_failed, hb_tick>>
    /\ UNCHANGED <<discVars, replVars, cliVars>>

\* a task marked by cancel() is resumed: CancelledError is raised at its
\* await.  A task not yet started ends at once, one in asyncio.sleep is
\* outside the try; one in ollama.chat or in peer_client.chat is inside
\* `try ... except Exception`, which takes the error only if it catches it
Cancelled(t) ==
    /\ LoopIdle
    /\ t \in cancel_req
    /\ cancel_req' = cancel_req \ {t}
    /\ IF hb_pc[t] = "calling" /\ CatchesException("CancelledError")
       THEN /\ hb_pc' = [hb_pc EXCEPT ![t] = CaughtBackendError(t)]
            /\ hb_tick' = [hb_tick EXCEPT ![t] = "backend_failed"]
            /\ UNCHANGED <<hb_reply, hb_iter, hb_sent, hb_known, hb_failed>>
       ELSE IF hb_pc[t] = "sending" /\ CatchesException("CancelledError")
       THEN /\ hb_reply' = hb_reply
            /\ hb_known' = hb_known
            /\ hb_failed' = hb_failed
            /\ BroadcastNext(t, hb_iter[t])
       ELSE /\ hb_pc' = [hb_pc EXCEPT ![t] = "cancelled"]
            /\ hb_tick' = [hb_tick EXCEPT ![t] =
                              IF hb_pc[t] \in {"calling", "sending"}
                              THEN "cancelled" ELSE @]
            /\ ClearTick(t)
    /\ UNCHANGED <<running, stop_pc, cron, discVars, replVars, cliVars>>

\* `await asyncio.gather(*self._task_handles, return_exceptions=True)` is
\* over when every task is done, and stop() returns
StopReturn ==
    /\ stop_pc = "gathering"
    /\ \A t \in TaskIds : hb_pc[t] \in {"cancelled", "exited", "dead"}
    /\ stop_pc' = "returned"
    /\ UNCHANGED <<running, cancel_req, cron, hb_pc, hb_reply, hb_iter, hb_sent,
                   hb_known, hb_failed, hb_tick>>
    /\ UNCHANGED <<discVars, replVars, cliVars>>

\* the registry changes under the iterators of the broadcasts in progress
TouchIters ==
    hb_iter' = [t \in DOMAIN hb_iter |->
                   IF hb_pc[t] = "sending" THEN Touch(hb_iter[t], peers, peers')
                   ELSE hb_iter[t]]

hbRest == <<running, stop_pc, cancel_req, cron, hb_pc, hb_reply, hb_sent, hb_known, hb_failed, hb_tick>>

HbStart == Start /\ UNCHANGED <<last, stale, request_ok, main, replVars, hbVars, cliVars>>
PresenceAmong(names) ==
    \E name \in names :
        /\ LoopIdle
        /\ InFlight(AllNames) < MaxInFlightBusy
        /\ Presence(name)
        /\ UNCHANGED <<last, stale, request_ok, main, replVars, hbVars, cliVars>>
ResolvedAmong(names) ==
    \E name \in names, info \in HbAnnouncements :
        /\ LoopIdle
        /\ Resolved(name, info)
        /\ TouchIters
        /\ UNCHANGED <<last, stale, request_ok, main, replVars, hbRest, cliVars>>
RemovedAmong(names) ==
    \E name \in names :
        /\ LoopIdle
        /\ Removed(name)
        /\ TouchIters
        /\ UNCHANGED <<last, stale, request_ok, main, replVars, hbRest, cliVars>>
HbPresence == PresenceAmong(HbNames)
HbResolved == ResolvedAmong(HbNames)
HbRemoved == RemovedAmong(HbNames)
HbTaskBegin == \E t \in DOMAIN hb_pc : TaskBegin(t)
HbWake == \E t \in DOMAIN hb_pc : Wake(t)
HbBackendDone == \E t \in DOMAIN hb_pc, ok \in BOOLEAN : BackendDone(t, ok)
HbSendDone == \E t \in DOMAIN hb_pc, ok \in BOOLEAN : SendDone(t, ok)
HbLoopHead == \E t \in DOMAIN hb_pc, late \in BOOLEAN : LoopHead(t, late)
HbCancelled == \E t \in DOMAIN hb_pc : Cancelled(t)

\* the scheduler while it runs, beside the registry
NextHb ==
    \/ HbStart \/ HbPresence \/ HbResolved \/ HbRemoved
    \/ SchedulerStart \/ HbTaskBegin \/ HbWake \/ HbBackendDone \/ HbSendDone
    \/ HbLoopHead

SpecHb == Init /\ [][NextHb]_vars

\* one run of task t's coroutine between two awaits
TaskStep(t) ==
    /\ t \in DOMAIN hb_pc
    /\ \/ TaskBegin(t)
       \/ Wake(t)
       \/ \E ok \in BOOLEAN : BackendDone(t, ok)
       \/ \E ok \in BOOLEAN : SendDone(t, ok)
       \/ \E late \in BOOLEAN : LoopHead(t, late)
       \/ Cancelled(t)

\* the event loop runs every coroutine that is ready, a sleep ends when its
\* delay has passed, and the HTTP clients give up after their timeout (120 s
\* for the backend, 60 s for a peer): a task that can take a step again and
\* again takes it
HbFairness ==
    /\ \A t \in TaskIds : SF_vars(TaskStep(t))
    /\ WF_vars(StopReturn)

\* the scheduler beside a network of one peer
LiveNames == {"ALICE", "bob"}
LivePresence == PresenceAmong(LiveNames)
LiveResolved == ResolvedAmong(LiveNames)
LiveRemoved == RemovedAmong(LiveNames)

NextHbLive ==
    \/ HbStart \/ LivePresence \/ LiveResolved \/ LiveRemoved
    \/ SchedulerStart \/ HbTaskBegin \/ HbWake \/ HbBackendDone \/ HbSendDone
    \/ HbLoopHead \/ SchedulerStop \/ HbCancelled \/ StopReturn

SpecHbLive == Init /\ [][NextHbLive]_vars /\ HbFairness

-----------------------------------------------------------------------------
(* Properties of the registry (Spec)                                       *)

\* C1: the registry never holds an entry under the local node's effective
\* name, whatever presence and withdrawal events arrive, own announcements
\* and a rename on name conflict included.
C1_NoSelfInRegistry == ~Has(peers, node_name)

\* the node was renamed, holds the node that owns the requested name as a
\* peer, and has just filtered an announcement of its own effective name
C1_Witness ==
    /\ node_name = AlternateName
    /\ last.op = "self" /\ last.name = node_name
    /\ Has(peers, RequestedName)

\* what each announcement of the environment carries, written out
Announced(info) ==
    CASE info = AnnFull ->
           [host |-> "10.0.0.1", port |-> 7331, model |-> <<"m", "1">>,
            skills |-> << <<"a">>, <<"b">> >>]
      [] info = AnnBare ->
           [host |-> "10.0.0.2", port |-> 0, model |-> <<>>, skills |-> <<>>]

C3_WithdrawUnknownNoOp ==
    [][\A name \in AllNames :
          Removed(name) =>
              /\ RemovedEvent(name).op = "removed"
              /\ ~Has(peers', name)
              /\ ~Has(peers, name) => peers' = peers
              /\ Pop(peers', name) = peers']_vars

\* a withdrawal for an unknown name was processed while peers were registered
C3_Witness == last.op = "removed" /\ last.prev = Nothing /\ peers # <<>>

-----------------------------------------------------------------------------
(* Properties of the aggregation protocol (SpecAgg)                        *)

\* a < b in case-sensitive code-point lexicographic order: a is a proper
\* prefix of b, or the first code point at which they differ is smaller in a
CodePointLess(a, b) ==
    LET ca == CodePoints(a)
        cb == CodePoints(b)
    IN  \/ Len(ca) < Len(cb) /\ SubSeq(cb, 1, Len(ca)) = ca
        \/ \E i \in 1..Len(ca) :
               /\ i <= Len(cb)
               /\ SubSeq(ca, 1, i - 1) = SubSeq(cb, 1, i - 1)
               /\ ca[i] < cb[i]

Responders == {responses[i][1] : i \in 1..Len(responses)}

\* the snapshot peers whose chat call returned a reply
Replied == {snapshot[i].name : i \in {j \in 1..Len(asks) : asks[j].reply # Nothing}}

SynthesisCalls == SelectSeq(chat_log, LAMBDA c : c.message.kind = "synthesis")

Printed(kind) == \E i \in 1..Len(printed) : printed[i].kind = kind

\* the responses dict with bob, ALICE and carol, in each insertion order
ExampleResponses ==
    LET r(n) == <<n, Some("noon")>>
    IN  {<<r("bob"), r("ALICE"), r("carol")>>, <<r("bob"), r("carol"), r("ALICE")>>,
         <<r("ALICE"), r("bob"), r("carol")>>, <<r("ALICE"), r("carol"), r("bob")>>,
         <<r("carol"), r("bob"), r("ALICE")>>, <<r("carol"), r("ALICE"), r("bob")>>}

\* C4: when two or more peers respond, the leader is the smallest responder
\* name in case-sensitive code-point order, in whatever order the replies
\* arrived and the peers were registered; among bob, ALICE and carol it is ALICE.
C4_LeaderIsSmallestResponder ==
    /\ Len(responses) >= 2 =>
          /\ leader_name \in Responders
          /\ \A r \in Responders : r = leader_name \/ CodePointLess(leader_name, r)
    /\ leader_name # None => Len(responses) >= 2
    /\ \A resp \in ExampleResponses : ElectLeader(resp) = "ALICE"

\* three peers answered, and the leader is neither the first registered nor
\* the first of the responses
C4_Witness ==
    /\ Len(responses) = 3
    /\ leader_name = "ALICE"
    /\ snapshot[3].name = "ALICE"
    /\ snapshot[1].name = "bobby"

\* C5: the fan-out sends one chat call to every snapshot peer at once; it ends
\* only when every call has replied or failed, and its result set is exactly
\* the snapshot peers whose call returned a reply, failures being left out
\* without harm to the others.
C5_FanOutBestEffort ==
    /\ repl_pc = "fanout" =>
          /\ Len(chat_log) = Len(snapshot)
          /\ \A i \in 1..Len(snapshot) :
                 /\ chat_log[i].to = snapshot[i].name
                 /\ chat_log[i].url = <<snapshot[i].host, snapshot[i].port>>
                 /\ chat_log[i].message = Message("question", None, Question, <<>>)
    /\ (repl_pc \in {"synthesis", "done"} /\ snapshot # <<>>) =>
          /\ \A i \in 1..Len(asks) : asks[i].state = "returned"
          /\ Responders = Replied
          /\ Len(responses) = Cardinality(Replied)
          /\ \A i \in 1..Len(responses) : \E j \in 1..Len(asks) :
                 /\ snapshot[j].name = responses[i][1]
                 /\ asks[j].reply = responses[i][2]
    /\ repl_pc # "raised"

\* of three peers one failed and two replied, one of them with an empty text:
\* the result set has the two
C5_Witness ==
    /\ repl_pc \in {"synthesis", "done"}
    /\ Len(snapshot) = 3
    /\ Cardinality({i \in 1..3 : asks[i].reply = Nothing}) = 1
    /\ \E i \in 1..3 : asks[i].reply = Some("")
    /\ Len(responses) = 2

\* C6: when exactly one peer responds, its reply text is the final answer,
\* unchanged, and no synthesis call is made: the chat calls are those of the
\* fan-out, one per snapshot peer.
C6_SingleResponderVerbatim ==
    Len(responses) = 1 =>
        /\ repl_pc = "done"
        /\ \E j \in 1..Len(asks) :
               /\ asks[j].reply # Nothing
               /\ printed[Len(printed)] =
                      [kind |-> "reply", name |-> snapshot[j].name,
                       text |-> asks[j].reply[1], n |-> 0]
        /\ SynthesisCalls = <<>>
        /\ Len(chat_log) = Len(snapshot)
        /\ leader_name = None
        /\ ~Printed("final") /\ ~Printed("aggregating")

\* of three peers only one replied
C6_Witness ==
    /\ Len(responses) = 1
    /\ Len(snapshot) = 3
    /\ repl_pc = "done"

\* C7: when every peer of a non-empty snapshot fails, the protocol ends with
\* the "all failed" line, which it prints in no other case (not for an empty
\* registry, not beside an answer), makes no synthesis call and raises nothing.
C7_AllFailedOutcome ==
    /\ (repl_pc = "done" /\ snapshot # <<>> /\ Replied = {}) =>
          /\ printed[Len(printed)].kind = "all_failed"
          /\ ~Printed("no_peers") /\ ~Printed("reply") /\ ~Printed("final")
          /\ SynthesisCalls = <<>>
          /\ Len(chat_log) = Len(snapshot)
    /\ Printed("all_failed") => (repl_pc = "done" /\ snapshot # <<>> /\ Replied = {})
    /\ Printed("no_peers") => (repl_pc = "done" /\ snapshot = <<>>)
    /\ repl_pc # "raised"

\* three peers were asked and all three failed
C7_Witness ==
    /\ repl_pc = "done"
    /\ Len(snapshot) = 3
    /\ Replied = {}
    /\ Printed("all_failed")

\* C10: when two or more peers respond, exactly one synthesis call is made,
\* and it goes to the elected leader, also when the registry changed during
\* the fan-out.
C10_OneSynthesisCallToLeader ==
    (Len(responses) >= 2 /\ repl_pc \in {"synthesis", "done"}) =>
        /\ Len(SynthesisCalls) = 1
        /\ SynthesisCalls[1].to = leader_name


(***************************************************************************)
(* Heartbeat properties                                                    *)
(***************************************************************************)

\* the outcome of task t's current or last tick, "none" before the first
TickOf(t) == IF t \in DOMAIN hb_tick THEN hb_tick[t] ELSE "none"

PcOf(t) == IF t \in DOMAIN hb_pc THEN hb_pc[t] ELSE "none"

\* the chat calls of task t's tick that went to the peer named p
SentTo(t, p) == {i \in 1..Len(hb_sent[t]) : hb_sent[t][i].to = p}

\* a step in which the backend call of task t raises: t is back at the head
\* of its loop, the scheduler still runs, and no other task is touched
BackendFailureStep(t) ==
    (PcOf(t) = "calling" /\ hb_tick'[t] = "backend_failed") =>
        /\ hb_pc'[t] = "loop"
        /\ running' = running
        /\ \A u \in TaskIds \ {t} :
              /\ hb_pc'[u] = hb_pc[u]
              /\ hb_tick'[u] = hb_tick[u]
              /\ hb_sent'[u] = hb_sent[u]
              /\ hb_iter'[u] = hb_iter[u]

\* C8: a tick whose backend call raises leaves the task's loop alive and every
\* other task and the scheduler untouched; unless the scheduler is stopped,
\* the task fires again, and so does every other task.
C8_BackendFailureKeepsFiring ==
    /\ [][\A t \in TaskIds : BackendFailureStep(t)]_vars
    /\ \A t \in TaskIds :
          (TickOf(t) = "backend_failed") ~> (TickOf(t) = "firing" \/ ~running)
    /\ \A t \in TaskIds : []<>(TickOf(t) = "firing" \/ ~running)

\* the backend call of one task failed and the task sleeps until its next
\* tick, while the other task's tick is in progress
C8_Witness ==
    /\ running
    /\ \E t \in DOMAIN hb_pc :
          /\ hb_tick[t] = "backend_failed"
          /\ hb_pc[t] = "sleeping"
          /\ \E u \in DOMAIN hb_pc \ {t} : hb_pc[u] \in {"calling", "sending"}

\* C9: at the end of a tick of a broadcast task whose backend call succeeded,
\* every peer registered when the broadcast began has received exactly one
\* chat call carrying the reply; a task without broadcast and a tick whose
\* backend call failed send no chat call.
C9_BroadcastReachesEveryKnownPeer ==
    \A t \in DOMAIN hb_pc :
        hb_pc[t] = "loop" =>
            IF Tasks[t].broadcast /\ hb_tick[t] # "backend_failed"
            THEN \A p \in hb_known[t] :
                    /\ Cardinality(SentTo(t, p)) = 1
                    /\ \A i \in SentTo(t, p) : hb_sent[t][i].message.text = hb_reply[t]
            ELSE hb_sent[t] = <<>>

(***************************************************************************)
(* Aggregation properties, continued                                       *)
(***************************************************************************)

\* the position of the first line of a kind in what was printed, 0 if none
FirstLine(kind) ==
    IF Printed(kind)
    THEN CHOOSE i \in 1..Len(printed) :
            /\ printed[i].kind = kind
            /\ \A j \in 1..(i - 1) : printed[j].kind # kind
    ELSE 0

\* C11: when the synthesis step fails after two or more peers responded, the
\* response of every responder was printed before the failure note, the note
\* is the last line, no synthesized answer is printed, and _broadcast_chat
\* returns: it raises nothing.  A fan-out with two or more responses ends with
\* the answer or with the note.
C11_SynthesisFailureReported ==
    /\ repl_pc # "raised"
    /\ Printed("synthesis_failed") =>
          /\ repl_pc = "done"
          /\ Len(responses) >= 2
          /\ FirstLine("synthesis_failed") = Len(printed)
          /\ ~Printed("final")
          /\ \A r \in 1..Len(responses) :
                \E i \in 1..(Len(printed) - 1) :
                    /\ printed[i].kind \in {"reply", "reply_leader"}
                    /\ printed[i].name = responses[r][1]
                    /\ printed[i].text = responses[r][2][1]
    /\ (repl_pc = "done" /\ Len(responses) >= 2) =>
          (Printed("final") \/ Printed("synthesis_failed"))

\* three peers responded, the synthesis call was made and it failed
C11_Witness ==
    /\ repl_pc = "done"
    /\ Len(responses) = 3
    /\ Len(SynthesisCalls) = 1
    /\ Printed("synthesis_failed")

(***************************************************************************)
(* Heartbeat properties, continued                                         *)
(***************************************************************************)

\* a step after stop() was signalled, seen from task t: no chat call and no
\* backend call is started, the task's tick is not completed and not marked
\* as failed, and if the task moves, it moves to its cancelled end
StepAfterStop(t) ==
    (stop_pc # "idle" /\ ~running) =>
        /\ Len(hb_sent'[t]) <= Len(hb_sent[t])
        /\ hb_pc'[t] = "calling" => hb_pc[t] = "calling"
        /\ hb_pc'[t] = "sending" => hb_pc[t] = "sending"
        /\ hb_pc'[t] # hb_pc[t] => hb_pc'[t] = "cancelled"
        /\ hb_tick'[t] \in {hb_tick[t], "cancelled"}

\* C12: once stop() has cleared the flag, no task starts a backend call or a
\* chat call; a task that sleeps or has a call in flight ends cancelled, its
\* tick neither completed nor reported as failed; stop() returns only when
\* every task has ended, and it does return.
C12_StopCancelsEveryTask ==
    /\ [][\A t \in DOMAIN hb_pc : StepAfterStop(t)]_vars
    /\ [](stop_pc = "returned" =>
            /\ cancel_req = {}
            /\ \A t \in DOMAIN hb_pc : hb_pc[t] \in {"cancelled", "exited"})
    /\ (stop_pc = "gathering") ~> (stop_pc = "returned")

\* stop() returned after it cancelled a broadcast with a chat call in flight
\* and a peer still to come, and a task that slept
C12_Witness ==
    /\ stop_pc = "returned"
    /\ \E t \in DOMAIN hb_pc : hb_tick[t] = "cancelled" /\ hb_pc[t] = "cancelled"
    /\ \E t \in DOMAIN hb_pc : hb_tick[t] = "ok" /\ hb_pc[t] = "cancelled"

\* C13: the sender of every chat call, of a heartbeat broadcast and of the
\* interactive fan-out alike, and the node name the RPC server reports are
\* the effective name, Discovery.node_name, also after a rename.
C13_EffectiveNameEverywhere ==
    /\ \A t \in DOMAIN hb_sent :
          \A i \in 1..Len(hb_sent[t]) : hb_sent[t][i].sender = node_name
    /\ \A i \in 1..Len(chat_log) : chat_log[i].sender = node_name
    /\ browsing => ServerNodeName = node_name

-----------------------------------------------------------------------------
(***************************************************************************)
(* One _run_loop against the clock.  Time is counted in minutes; a         *)
(* schedule "*/p * * * *" matches the multiples of p.                      *)
(***************************************************************************)

\* the clock stops here
MaxTime == 6

\* the p of the schedules "*/p * * * *"
Periods == {1, 2}

\* the first cron match strictly after time t
NextMatch(t, p) == ((t \div p) + 1) * p

\* the text of the schedule that fires every p minutes
ScheduleText(p) == IF p = 1 THEN "* * * * *" ELSE "*/2 * * * *"

\* schedule fields that are not cron expressions
InvalidSchedules == {"every minute", "61 * * * *"}

\* what the `schedule:` field of a task of HEARTBEAT.md may hold; "" when
\* the field is missing (_extract_field)
Schedules == {ScheduleText(p) : p \in Periods} \cup InvalidSchedules \cup {""}

\* croniter(text, start): the period of a valid expression; None stands for
\* CroniterBadCronError
Croniter(text) ==
    IF \E p \in Periods : ScheduleText(p) = text
    THEN Some(CHOOSE p \in Periods : ScheduleText(p) = text)
    ELSE Nothing

\* parse_heartbeat on one task whose prompt is given: `if schedule and
\* prompt:` appends the task, whatever the schedule text is; a task without
\* a schedule is left out
ParseHeartbeat(text) == IF text # "" THEN "created" ELSE "skipped"

\* load_config, and HeartbeatScheduler.start creating the asyncio task of
\* each task parsed
CronLoad ==
    /\ cron.pc = "unloaded"
    /\ \E text \in Schedules :
          cron' = [cron EXCEPT !.schedule = text, !.pc = ParseHeartbeat(text)]
    /\ UNCHANGED <<running, stop_pc, cancel_req, hb_pc, hb_reply, hb_iter,
                   hb_sent, hb_known, hb_failed, hb_tick>>
    /\ UNCHANGED <<discVars, replVars, cliVars>>

\* `cron = croniter(ht.schedule, datetime.now(timezone.utc))`: the iterator
\* starts at the current time; for a text that is no cron expression the
\* constructor raises, outside any try, and the asyncio task ends
CronBegin ==
    /\ cron.pc = "created"
    /\ LET c == Croniter(cron.schedule)
       IN  cron' = IF c = Nothing
                   THEN [cron EXCEPT !.pc = "dead"]
                   ELSE [cron EXCEPT !.pc = "loop", !.period = c[1],
                                     !.cur = cron.now]
    /\ UNCHANGED <<running, stop_pc, cancel_req, hb_pc, hb_reply, hb_iter,
                   hb_sent, hb_known, hb_failed, hb_tick>>
    /\ UNCHANGED <<discVars, replVars, cliVars>>

\* a minute passes before the start, while the task sleeps or its invocation runs
Minute ==
    /\ cron.pc \in {"unloaded", "created", "sleeping", "invoking"}
    /\ cron.now < MaxTime
    /\ cron' = [cron EXCEPT !.now = @ + 1]
    /\ UNCHANGED <<running, stop_pc, cancel_req, hb_pc, hb_reply, hb_iter,
                   hb_sent, hb_known, hb_failed, hb_tick>>
    /\ UNCHANGED <<discVars, replVars, cliVars>>

\* the head of the while loop: `next_dt = cron.get_next(datetime)` is the
\* first match after the iterator's position, which then moves to it;
\* `delay = (next_dt - now).total_seconds()`; sleep if delay > 0, else fire
CronIterate ==
    /\ cron.pc = "loop"
    /\ LET next_dt == NextMatch(cron.cur, cron.period)
           delay == next_dt - cron.now
       IN  cron' = [cron EXCEPT !.next_dt = next_dt, !.cur = next_dt,
                                !.at = cron.now,
                                !.pc = IF delay > 0 THEN "sleeping" ELSE "invoking",
                                !.fires = IF delay > 0 THEN @ ELSE @ + 1]
    /\ UNCHANGED <<running, stop_pc, cancel_req, hb_pc, hb_reply, hb_iter,
                   hb_sent, hb_known, hb_failed, hb_tick>>
    /\ UNCHANGED <<discVars, replVars, cliVars>>

\* asyncio.sleep(delay) is over, not before next_dt: the task fires
CronWake ==
    /\ cron.pc = "sleeping"
    /\ cron.now >= cron.next_dt
    /\ cron' = [cron EXCEPT !.pc = "invoking", !.fires = @ + 1]
    /\ UNCHANGED <<running, stop_pc, cancel_req, hb_pc, hb_reply, hb_iter,
                   hb_sent, hb_known, hb_failed, hb_tick>>
    /\ UNCHANGED <<discVars, replVars, cliVars>>

\* the backend call and the broadcast of the tick are over
CronInvoked ==
    /\ cron.pc = "invoking"
    /\ cron' = [cron EXCEPT !.pc = "loop"]
    /\ UNCHANGED <<running, stop_pc, cancel_req, hb_pc, hb_reply, hb_iter,
                   hb_sent, hb_known, hb_failed, hb_tick>>
    /\ UNCHANGED <<discVars, replVars, cliVars>>

NextCron == CronLoad \/ CronBegin \/ Minute \/ CronIterate \/ CronWake \/ CronInvoked

SpecCron == Init /\ [][NextCron]_vars

-----------------------------------------------------------------------------
(***************************************************************************)
(* PeerClient                                                              *)
(***************************************************************************)

RpcOps == {"chat", "exec_on", "health", "info"}

\* the peers a call is addressed to
RpcPeers ==
    {MakePeerInfo(name, info) : name \in PeerNames, info \in {AnnFull, AnnBare}}

\* how the HTTP exchange ends: a transport failure (no connection, timeout
\* after 60 s), or a response with a status
RpcOutcomes ==
    {[transport |-> e, status |-> 0] : e \in {"ConnectError", "ReadTimeout"}}
    \cup {[transport |-> None, status |-> c] : c \in {200, 404, 500}}

\* the path each operation requests
RpcPath(op) ==
    CASE op = "chat" -> "/chat"
      [] op = "exec_on" -> "/exec"
      [] op = "health" -> "/health"
      [] op = "info" -> "/info"

\* f"{peer.base_url}<path>"
RpcUrl(op, peer) == <<"http://", peer.host, peer.port, RpcPath(op)>>

\* the exception self._client.get/post or resp.raise_for_status() raises: an
\* httpx error, which holds the request (its URL) and knows no peer name
HttpxError(op, peer, outcome) ==
    [type |-> IF outcome.transport # None THEN outcome.transport
              ELSE "HTTPStatusError",
     url |-> RpcUrl(op, peer), peer |-> Nothing]

\* PeerClient.chat / exec_on / health / info: the request, raise_for_status,
\* and the body returned
PeerClientCall(op, peer, outcome) ==
    IF outcome.transport # None
    THEN [kind |-> "raise", error |-> Some(HttpxError(op, peer, outcome))]
    ELSE IF outcome.status >= 400
    THEN [kind |-> "raise", error |-> Some(HttpxError(op, peer, outcome))]
    ELSE [kind |-> "return", error |-> Nothing]

\* one call of a PeerClient method
RpcCall ==
    \E op \in RpcOps, peer \in RpcPeers, outcome \in RpcOutcomes :
        /\ rpc' = [op |-> op, peer |-> peer.name, outcome |-> Some(outcome),
                   result |-> Some(PeerClientCall(op, peer, outcome))]
        /\ UNCHANGED <<discVars, replVars, hbVars, stop_set, eof, cli>>

SpecRpc == Init /\ [][RpcCall]_vars

-----------------------------------------------------------------------------
(***************************************************************************)
(* MeshREPL: the session.  A line is the sequence of its words.            *)
(***************************************************************************)

ReplNames == {"ALICE", "bob"}

\* the lines typed
ReplLines ==
    {<<>>, <<"quit">>, <<"QUIT">>, <<"quit", "now">>, <<"help">>, <<"list">>,
     <<"info">>, <<"Info", "ALICE">>, <<"info", "bo">>, <<"info", "zed">>,
     <<"health">>, <<"health", "bob">>,
     <<"chat">>, <<"chat", "what", "is", "the", "time">>,
     <<"dm">>, <<"dm", "ALICE">>, <<"dm", "bo", "hello", "there">>,
     <<"dm", "zed", "hello">>,
     <<"exec", "ALICE", "bash">>, <<"exec", "ALICE", "ruby", "puts">>,
     <<"exec", "ALICE", "bash", "ls">>, <<"exec", "zed", "python", "1">>,
     <<"frobnicate">>}

\* str.lower() of a word
Lower(w) ==
    CASE w = "QUIT" -> "quit"
      [] w = "Info" -> "info"
      [] OTHER -> w

\* rest.strip(), as a name: the words after the command, none or one
RestName(rest) == IF rest = <<>> THEN "" ELSE rest[1]

\* a command whose RPC failure leaves _handle_line
CommandUncaught(line) ==
    [pc |-> "raised", line |-> line, op |-> None, peer |-> Nothing, out |-> "none"]

\* `except Exception as e: print(f"Error: {e}")` of info, dm, exec and health
CommandExcept(line) == AtPrompt(line, "error")

\* a command that awaits a PeerClient call
AwaitRpc(line, op, peer) ==
    [pc |-> "rpc", line |-> line, op |-> op, peer |-> peer, out |-> "none"]

\* _handle_line up to its first await or its return: what becomes of the
\* session.  `stop` says whether self._stop is set, `chat` whether
\* _broadcast_chat is called
HandleLineTo(line) ==
    LET ret(out) == [stop |-> FALSE, chat |-> FALSE, cli |-> AtPrompt(line, out)]
        call(op, name) ==
            IF ResolvePeer(name) = Nothing THEN ret("unknown_peer")
            ELSE [stop |-> FALSE, chat |-> FALSE,
                  cli |-> AwaitRpc(line, op, ResolvePeer(name))]
    IN
    IF line = <<>> THEN ret("none")
    ELSE LET cmd == Lower(line[1])
             rest == Tail(line)
         IN  CASE cmd = "quit" ->
                      [stop |-> TRUE, chat |-> FALSE, cli |-> AtPrompt(line, "none")]
               [] cmd = "help" -> ret("help")
               [] cmd = "list" ->
                      ret(IF peers = <<>> THEN "no_peers" ELSE "peer_list")
               [] cmd = "info" -> call("info", RestName(rest))
               [] cmd = "health" -> call("health", RestName(rest))
               [] cmd = "chat" ->
                      IF rest = <<>> THEN ret("usage")
                      ELSE [stop |-> FALSE, chat |-> TRUE, cli |-> AtPrompt(line, "none")]
               [] cmd = "dm" ->
                      IF Len(rest) < 2 THEN ret("usage") ELSE call("chat", rest[1])
               [] cmd = "exec" ->
                      IF Len(rest) < 3 THEN ret("usage")
                      ELSE IF ResolvePeer(rest[1]) = Nothing THEN ret("unknown_peer")
                      ELSE IF rest[2] \notin {"bash", "python"} THEN ret("bad_lang")
                      ELSE call("exec_on", rest[1])
               [] OTHER -> ret("unknown_command")

\* the loop of run took a line from the queue and calls _handle_line; a
\* chat line with a message goes on in _broadcast_chat
HandleLine(line) ==
    /\ browsing
    /\ cli.pc = "prompt"
    /\ repl_pc = "idle"
    /\ ~stop_set
    /\ ~HandleLineTo(line).chat
    /\ cli' = HandleLineTo(line).cli
    /\ stop_set' = (stop_set \/ HandleLineTo(line).stop)
    /\ UNCHANGED <<rpc, eof, discVars, replVars, hbVars>>

\* `chat <message>`: _handle_line awaits _broadcast_chat
ChatLine ==
    /\ cli.pc = "prompt"
    /\ ~stop_set
    /\ \E line \in ReplLines :
          /\ HandleLineTo(line).chat
          /\ cli' = [AtPrompt(line, "none") EXCEPT !.pc = "chat"]
    /\ Snapshot
    /\ UNCHANGED <<rpc, stop_set, eof, discVars, hbVars>>

\* _broadcast_chat returned, and _handle_line with it
ChatReturn ==
    /\ cli.pc = "chat"
    /\ Return
    /\ cli' = AtPrompt(cli.line, "chat_done")
    /\ UNCHANGED <<rpc, stop_set, eof, discVars, hbVars>>

\* the PeerClient call of info, dm, exec or health returned or raised; a
\* body that is not what the command reads (no dict, no 'exit_code') raises
\* inside the same try
RpcDone(outcome, wellformed) ==
    /\ cli.pc = "rpc"
    /\ LET result == PeerClientCall(cli.op, cli.peer[1], outcome)
       IN  cli' = IF result.kind = "raise" \/ ~wellformed
                  THEN CommandExcept(cli.line)
                  ELSE AtPrompt(cli.line, "result")
    /\ UNCHANGED <<rpc, stop_set, eof, discVars, replVars, hbVars>>

\* on_stdin read an empty line: EOF, the stop flag is set
Eof ==
    /\ browsing
    /\ ~eof
    /\ eof' = TRUE
    /\ stop_set' = TRUE
    /\ UNCHANGED <<rpc, cli, discVars, replVars, hbVars>>

\* `while not self._stop.is_set()` ends the loop of run
SessionEnd ==
    /\ cli.pc = "prompt"
    /\ repl_pc = "idle"
    /\ stop_set
    /\ cli' = [cli EXCEPT !.pc = "ended"]
    /\ UNCHANGED <<rpc, stop_set, eof, discVars, replVars, hbVars>>

ReplStart == Start /\ UNCHANGED <<last, stale, request_ok, main, replVars, hbVars, cliVars>>
ReplPresence ==
    \E name \in ReplNames :
        /\ InFlight(AllNames) < MaxInFlightBusy
        /\ Presence(name)
        /\ UNCHANGED <<last, stale, request_ok, main, replVars, hbVars, cliVars>>
ReplResolved ==
    \E name \in ReplNames, info \in AggAnnouncements :
        Resolved(name, info) /\ UNCHANGED <<last, stale, request_ok, main, replVars, hbVars, cliVars>>
ReplRemoved ==
    \E name \in ReplNames : Removed(name) /\ UNCHANGED <<last, stale, request_ok, main, replVars, hbVars, cliVars>>
ReplHandleLine == \E line \in ReplLines : HandleLine(line)
ReplRpcDone ==
    \E outcome \in RpcOutcomes, wellformed \in BOOLEAN : RpcDone(outcome, wellformed)

NextRepl ==
    \/ ReplStart \/ ReplPresence \/ ReplResolved \/ ReplRemoved
    \/ ReplHandleLine \/ ChatLine \/ AggAskDone \/ Gather \/ AggSynthesisDone
    \/ ChatReturn \/ ReplRpcDone \/ Eof \/ SessionEnd

SpecRepl == Init /\ [][NextRepl]_vars

(***************************************************************************)
(* The run modes: daemon.run and daemon.run_ui, from start to teardown     *)
(***************************************************************************)

\* `--ui` or not
RunModes == {"daemon", "ui"}

\* a teardown that closes the RPC client first
TeardownClientFirst(mode) ==
    IF mode = "daemon"
    THEN <<"peer_client.close", "scheduler.stop", "discovery.stop", "server.stop",
           "ollama.close">>
    ELSE <<"peer_client.close", "discovery.stop">>

\* the awaits of the teardown, in the order of the code: the lines after
\* stop_event.wait() in run, the finally clause in run_ui
TeardownOrder(mode) ==
    IF mode = "daemon"
    THEN <<"scheduler.stop", "discovery.stop", "server.stop", "peer_client.close",
           "ollama.close">>
    ELSE <<"discovery.stop", "peer_client.close">>

\* everything but main
mainRest ==
    <<node_name, browsing, channel, peers, resolving, last, stale, request_ok,
      replVars, hbVars, cliVars>>

\* the teardown call was made and has returned
Done(call) == \E i \in 1..Len(main.done) : main.done[i] = call

\* peer_client.close() was called
ClientClosed == main.call = "peer_client.close" \/ Done("peer_client.close")

\* main(): asyncio.run(run(...)) or asyncio.run(run_ui(...))
RunEnter ==
    /\ main.mode = "none"
    /\ \E mode \in RunModes :
           main' = [main EXCEPT !.mode = mode, !.pc = "starting"]
    /\ UNCHANGED mainRest

\* `await discovery.start()`
RunDiscStart == main.pc = "starting" /\ HbStart

\* `await scheduler.start()`, in run only
RunSchedulerStart ==
    /\ main.mode = "daemon"
    /\ main.pc = "starting"
    /\ SchedulerStart

\* loop.add_signal_handler(sig, stop_event.set) for SIGINT and SIGTERM, then
\* `await stop_event.wait()` in run, `await repl.run()` in run_ui
RunInstall ==
    /\ main.pc = "starting"
    /\ browsing
    /\ main.mode = "daemon" => running
    /\ main' = [main EXCEPT !.handlers = TRUE,
                            !.pc = IF main.mode = "daemon" THEN "waiting" ELSE "repl"]
    /\ UNCHANGED mainRest

\* SIGINT or SIGTERM is delivered while the handlers are installed: the
\* event loop calls stop_event.set
Signal ==
    /\ main.handlers
    /\ ~main.signalled
    /\ main.pc # "exited"
    /\ main' = [main EXCEPT !.signalled = TRUE, !.stop_event = TRUE]
    /\ UNCHANGED mainRest

\* run: stop_event.wait() returns
DaemonWake ==
    /\ main.mode = "daemon"
    /\ main.pc = "waiting"
    /\ main.stop_event
    /\ main' = [main EXCEPT !.pc = "teardown"]
    /\ UNCHANGED mainRest

\* run_ui: the steps of repl.run() while it runs; it looks at MeshREPL._stop
\* alone
InRepl == main.pc = "repl"
UiHandleLine == InRepl /\ ReplHandleLine
UiChatLine == InRepl /\ ChatLine
UiAskDone == InRepl /\ AggAskDone
UiGather == InRepl /\ Gather
UiSynthesisDone == InRepl /\ AggSynthesisDone
UiChatReturn == InRepl /\ ChatReturn
UiRpcDone == InRepl /\ ReplRpcDone
UiEof == InRepl /\ Eof
UiSessionEnd == InRepl /\ SessionEnd

\* run_ui: repl.run() returned, the finally clause is entered
UiFinally ==
    /\ main.mode = "ui"
    /\ main.pc = "repl"
    /\ cli.pc = "ended"
    /\ main' = [main EXCEPT !.pc = "teardown"]
    /\ UNCHANGED mainRest

\* the next call of the teardown is made
RunCall ==
    /\ main.pc = "teardown"
    /\ main.call = None
    /\ main' = [main EXCEPT !.call = TeardownOrder(main.mode)[Len(main.done) + 1]]
    /\ UNCHANGED mainRest

\* `await scheduler.stop()` up to its gather
RunSchedulerStop == main.call = "scheduler.stop" /\ SchedulerStop

\* `await discovery.stop()`
RunDiscStop == main.call = "discovery.stop" /\ channel = <<>> /\ DiscStop

\* the await of a teardown call is over
CallOver(call) ==
    CASE call = "scheduler.stop" -> stop_pc = "returned"
      [] call = "discovery.stop" -> channel # <<>>
      [] OTHER -> TRUE

\* a teardown call returns; after the last one the coroutine ends
RunReturn ==
    /\ main.call # None
    /\ CallOver(main.call)
    /\ main' = [main EXCEPT !.call = None,
                            !.done = Append(@, main.call),
                            !.pc = IF Len(main.done) + 1 = Len(TeardownOrder(main.mode))
                                   THEN "exited" ELSE @]
    /\ UNCHANGED mainRest

\* the steps of the main coroutine that wait for nothing outside the process
MainStep ==
    \/ RunDiscStart \/ RunSchedulerStart \/ RunInstall \/ DaemonWake \/ UiFinally
    \/ RunCall \/ RunSchedulerStop \/ RunDiscStop \/ RunReturn
    \/ UiSessionEnd

NextRun ==
    \/ RunEnter \/ RunDiscStart \/ RunSchedulerStart \/ RunInstall \/ Signal
    \/ DaemonWake \/ UiFinally
    \/ UiHandleLine \/ UiChatLine \/ UiAskDone \/ UiGather \/ UiSynthesisDone
    \/ UiChatReturn \/ UiRpcDone \/ UiEof \/ UiSessionEnd
    \/ RunCall \/ RunSchedulerStop \/ RunDiscStop \/ RunReturn
    \/ LivePresence \/ LiveResolved \/ LiveRemoved
    \/ HbTaskBegin \/ HbWake \/ HbBackendDone \/ HbSendDone \/ HbLoopHead
    \/ HbCancelled \/ StopReturn

\* the awaits of a command of the REPL end, by a reply, an error or a timeout
ReplAwaitOver == UiAskDone \/ UiGather \/ UiSynthesisDone \/ UiChatReturn \/ UiRpcDone

\* the event loop resumes a coroutine whose await is over
RunFairness == HbFairness /\ SF_vars(MainStep) /\ WF_vars(ReplAwaitOver)

SpecRun == Init /\ [][NextRun]_vars /\ RunFairness

(***************************************************************************)
(* Registry properties, continued                                          *)
(***************************************************************************)

\* how often stop did one thing on the channel
ChannelCount(what) == Cardinality({i \in 1..Len(channel) : channel[i] = what})

\* C14: however often stop is called, and whether before start or after, the
\* browser is cancelled, the announcement unregistered and the channel closed
\* at most once each.
C14_StopIdempotent ==
    \A what \in {"cancel", "unregister", "close"} : ChannelCount(what) <= 1

(***************************************************************************)
(* PeerClient properties                                                   *)
(***************************************************************************)

\* the exchange of the last call failed: no connection, or a status
\* outside 200..299
RpcFailed ==
    /\ rpc.op # "none"
    /\ \/ rpc.outcome[1].transport # None
       \/ rpc.outcome[1].status < 200
       \/ rpc.outcome[1].status > 299

\* C15: a PeerClient call whose exchange fails ends in an error, not a return
\* value, and the error is the typed RPC error carrying the called peer's name.
C15_TypedRpcErrorWithPeerName ==
    RpcFailed =>
        /\ rpc.result[1].kind = "raise"
        /\ rpc.result[1].error[1].type = "RpcError"
        /\ rpc.result[1].error[1].peer = Some(rpc.peer)

\* C16: a fan-out over an empty snapshot prints "no peers" and nothing else
\* and ends: it sends no chat call, collects no response and elects no
\* leader; and "no peers" is printed for an empty snapshot only.
C16_EmptySnapshotStops ==
    /\ (repl_pc # "idle" /\ snapshot = <<>>) =>
          /\ repl_pc = "done"
          /\ printed = <<[NoLine EXCEPT !.kind = "no_peers"]>>
          /\ chat_log = <<>>
          /\ asks = <<>>
          /\ responses = <<>>
          /\ leader_name = None
          /\ leader = Nothing
    /\ Printed("no_peers") => (repl_pc = "done" /\ snapshot = <<>>)

\* the fan-out found the registry empty while a peer's announcement was
\* still being resolved
C16_Witness ==
    /\ repl_pc = "done"
    /\ Printed("no_peers")
    /\ peers = <<>>
    /\ InFlight(AllNames) > 0

(***************************************************************************)
(* Session properties                                                      *)
(***************************************************************************)

\* C17: no line makes _handle_line or _broadcast_chat raise; the stop flag is
\* set only by end of input or by a line whose first word is quit in any
\* case; a command that is not waiting for a peer is back at the prompt, and
\* the session ends only with the flag set.
C17_OnlyQuitEndsSession ==
    /\ cli.pc \in {"prompt", "rpc", "chat", "ended"}
    /\ cli.pc = "chat" <=> repl_pc # "idle"
    /\ repl_pc # "raised"
    /\ stop_set => (eof \/ (cli.line # <<>> /\ Lower(cli.line[1]) = "quit"))
    /\ cli.pc = "ended" => stop_set

\* a dm to a peer found by a unique prefix failed, and the session is at the
\* prompt
C17_Witness ==
    /\ cli.pc = "prompt"
    /\ cli.out = "error"
    /\ cli.line = <<"dm", "bo", "hello", "there">>
    /\ ~stop_set

(***************************************************************************)
(* Broadcast properties                                                    *)
(***************************************************************************)

\* a step in which a chat call of task t's broadcast fails while the registry
\* is as it was when the broadcast began: the call to the next peer is made,
\* or, after the last peer, the tick ends well
SendFailureStep(t) ==
    (/\ hb_pc[t] = "sending"
     /\ hb_failed'[t] > hb_failed[t]
     /\ ~hb_iter[t].dirty) =>
        IF hb_iter[t].pos < Len(peers)
        THEN /\ hb_pc'[t] = "sending"
             /\ Len(hb_sent'[t]) = Len(hb_sent[t]) + 1
             /\ hb_sent'[t][Len(hb_sent'[t])].to = peers[hb_iter[t].pos + 1].name
             /\ hb_tick'[t] = hb_tick[t]
        ELSE /\ hb_pc'[t] = "loop"
             /\ hb_tick'[t] = "ok"

SentNames(t) == {hb_sent[t][i].to : i \in 1..Len(hb_sent[t])}

\* C19: a fan-out and a heartbeat broadcast deliver to exactly the peers that
\* were registered when they started, whatever presence and withdrawal events
\* are handled meanwhile: the fan-out has one call per snapshot peer, and a
\* broadcast that began ends without an error, with one call per peer of the
\* registry as it was at its start.
C19_SnapshotSemantics ==
    /\ repl_pc \in {"fanout", "synthesis", "done"} =>
          /\ Len(chat_log) >= Len(snapshot)
          /\ \A i \in 1..Len(snapshot) : chat_log[i].to = snapshot[i].name
    /\ \A t \in DOMAIN hb_pc :
          (hb_pc[t] = "loop" /\ Tasks[t].broadcast /\ hb_tick[t] # "backend_failed") =>
              /\ hb_tick[t] = "ok"
              /\ SentNames(t) = hb_known[t]
              /\ Len(hb_sent[t]) = Cardinality(hb_known[t])

(***************************************************************************)
(* Schedule properties                                                     *)
(***************************************************************************)

\* C20: the fire time an iteration waits for is the first cron match
\* strictly after the time at which the iteration began, so no iteration
\* fires without waiting.
C20_NextFireAfterNow ==
    cron.pc \in {"sleeping", "invoking"} =>
        /\ cron.next_dt = NextMatch(cron.at, cron.period)
        /\ cron.next_dt > cron.at

(***************************************************************************)
(* Registry properties under event order                                   *)
(***************************************************************************)

\* C21: after a withdrawal of n was processed, n enters the registry again
\* only by a presence event that arrived after the withdrawal: the handler
\* of an earlier presence event, still resolving at the withdrawal, does
\* not put n back.
C21_WithdrawnStaysAbsent ==
    [][\A n \in ResNames :
          (~Has(peers, n) /\ Has(peers', n)) => stale'[n] = stale[n]]_vars

C23_SynthesisPromptSorted ==
    \A i \in 1..Len(chat_log) :
        chat_log[i].message.kind = "synthesis" =>
            LET e == chat_log[i].message.entries
            IN  /\ chat_log[i].message.text = Question
                /\ {e[j][1] : j \in 1..Len(e)} = Replied
                /\ Len(e) = Cardinality(Replied)
                /\ \A j \in 1..Len(e) :
                       \E k \in 1..Len(asks) :
                           /\ snapshot[k].name = e[j][1]
                           /\ asks[k].reply = e[j][2]
                /\ \A j \in 1..(Len(e) - 1) : CodePointLess(e[j][1], e[j + 1][1])

\* a prompt was sent with two entries of differing replies: of three
\* snapshot peers, not in ascending order, the second did not reply
C23_Witness ==
    /\ SynthesisCalls # <<>>
    /\ Len(SynthesisCalls[1].message.entries) = 2
    /\ Len(snapshot) = 3
    /\ snapshot[1].name = "bobby"
    /\ snapshot[3].name = "ALICE"
    /\ asks[2].reply = Nothing
    /\ asks[1].reply # asks[3].reply

\* C24: a task whose schedule is not a valid cron expression is rejected when
\* the configuration is loaded: it is never accepted as a task of the
\* scheduler, whose stream then dies or never fires.
C24_InvalidScheduleRejected ==
    (cron.pc # "unloaded" /\ cron.schedule # "" /\ Croniter(cron.schedule) = Nothing)
        => cron.pc = "rejected"

(***************************************************************************)
(* Execution streams of the scheduler                                      *)
(***************************************************************************)

\* a tick of task t begins: its backend call is started
TickBegins(t) ==
    /\ t \in DOMAIN hb_pc /\ t \in DOMAIN hb_pc'
    /\ hb_pc'[t] = "calling"
    /\ hb_pc[t] # "calling"

\* C26: the scheduler runs exactly one stream per task; a tick that has not
\* ended is suspended in its one backend call or in its one chat call in
\* flight, every earlier chat call of the tick being over; and when a tick of
\* a task begins, the task's previous tick has ended.
C26_OneStreamNoOverlap ==
    /\ [](hb_pc # <<>> =>
            /\ DOMAIN hb_pc = TaskIds
            /\ \A t \in TaskIds :
                   /\ hb_tick[t] = "firing" => hb_pc[t] \in {"calling", "sending"}
                   /\ hb_pc[t] = "calling" => hb_sent[t] = <<>>
                   /\ hb_pc[t] \in {"created", "sleeping"} =>
                          hb_sent[t] = <<>> /\ hb_iter[t] = NoIter)
    /\ [][\A t \in TaskIds :
            TickBegins(t) =>
                /\ hb_pc[t] \in {"sleeping", "loop"}
                /\ hb_tick[t] # "firing"]_vars

\* both streams are in a tick at once, each in one call: the broadcasting
\* task in its second chat call, the first being over, the other task in
\* its backend call
C26_Witness ==
    /\ hb_pc # <<>>
    /\ hb_pc[1] = "sending" /\ Len(hb_sent[1]) = 2
    /\ hb_pc[2] = "calling"

(***************************************************************************)
(* Shutdown                                                                *)
(***************************************************************************)

\* the announcement is withdrawn and the RPC client closed, the heartbeat
\* tasks being cancelled first where there is a scheduler
TornDown ==
    /\ Done("discovery.stop")
    /\ Done("peer_client.close")
    /\ main.mode = "daemon" => Done("scheduler.stop")

\* the daemon's half of C25
DaemonSignalLeadsToTeardown == (main.signalled /\ main.mode = "daemon") ~> TornDown

\* C25: in both run modes, once SIGINT or SIGTERM was delivered, teardown
\* follows without any further input.
C25_SignalLeadsToTeardown == main.signalled ~> TornDown

\* C27: in the daemon's teardown the scheduler has stopped before discovery
\* is withdrawn and before the RPC client is closed: once the client is
\* closed every heartbeat task is over, so none is in a backend call, in a
\* chat call, or able to start one.
C27_SchedulerStoppedFirst ==
    main.mode = "daemon" =>
        /\ channel # <<>> => stop_pc = "returned"
        /\ ClientClosed =>
              /\ stop_pc = "returned"
              /\ channel # <<>>
              /\ \A t \in DOMAIN hb_pc : hb_pc[t] \in {"cancelled", "exited", "dead"}

\* the daemon closed its client after a teardown that cancelled the first
\* task in its backend call or in a chat call of its broadcast
C27_Witness ==
    /\ main.mode = "daemon"
    /\ ClientClosed
    /\ hb_tick # <<>>
    /\ hb_tick[1] = "cancelled"

=============================================================================
